---- MODULE Spec2Model ----
(***************************************************************************)
(* Model of matlab/VectorWrapper.h (Gerardus): the VectorWrapper class     *)
(* template, its ITK and CGAL partial specialisations, the selection of    *)
(* the definition for given template arguments, and the read operations    *)
(* each definition offers.                                                  *)
(*                                                                         *)
(* Scalars are fixed point numbers counted in halves: the integer v stands *)
(* for the value v/2, so 2 is 1.0 and 3 is 1.5.  A value of an integral    *)
(* type is an even number.                                                  *)
(***************************************************************************)
EXTENDS Integers, Sequences, FiniteSets

VARIABLES pm, wrapper, call, result, first

vars == <<pm, wrapper, call, result, first>>

(* ------------------------------ bounds -------------------------------- *)

MaxRows == 2
MaxCols == 4
MaxDim == 5
NumFills == 3

(* ------------------------------ types --------------------------------- *)

\* element types: a floating point type and an integral type
ElemTypes == {"double", "int"}

\* what VectorValueType may be instantiated with
ValueTypeArgs == ElemTypes \cup {"void"}

ParamNames == {"X", "SIZE"}

NoElem == "-"

NoKernel == "-"

\* the placeholder of a partial specialisation that stands for the
\* template parameter VectorValueType inside the pattern of VectorType
BoundToVectorValueType == "VectorValueType"

StdVector(e) == [tmpl |-> "std::vector", elem |-> e, dim |-> 0, kernel |-> NoKernel]

ItkSize(n) == [tmpl |-> "itk::Size", elem |-> NoElem, dim |-> n, kernel |-> NoKernel]

ItkArray(t, e, n) == [tmpl |-> t, elem |-> e, dim |-> n, kernel |-> NoKernel]

CgalType(t, k) == [tmpl |-> t, elem |-> NoElem, dim |-> 0, kernel |-> k]

ItkArrayTemplates == {"itk::FixedArray", "itk::Point", "itk::Vector"}

CgalTemplates == {"CGAL::Point_3", "CGAL::Direction_3"}

CgalKernels == {"Simple_cartesian<double>", "Epeck", "Epick"}

Dims == 1..MaxDim

\* the destination types the model instantiates VectorWrapper with
VectorTypes ==
  {StdVector(e) : e \in ElemTypes}
    \cup {ItkSize(n) : n \in Dims}
    \cup {ItkArray(t, e, n) : t \in ItkArrayTemplates, e \in ElemTypes, n \in Dims}
    \cup {CgalType(t, k) : t \in CgalTemplates, k \in CgalKernels}

\* VectorWrapper<VectorValueType, VectorType, MatlabValueType>
Instantiations == [vvt : ValueTypeArgs, vt : VectorTypes, mvt : ElemTypes]

(* ------------------- the definitions of VectorWrapper ------------------ *)

\* the dimensions the ITK specialisations are written for
ItkDims == {2, 3, 4}

Primary == [kind |-> "primary", vt |-> [tmpl |-> "VectorType", elem |-> NoElem, dim |-> 0, kernel |-> NoKernel]]

ItkSizeSpecialisations == {[kind |-> "itk", vt |-> ItkSize(n)] : n \in ItkDims}

ItkArraySpecialisations ==
  {[kind |-> "itk", vt |-> ItkArray(t, BoundToVectorValueType, n)] :
     t \in ItkArrayTemplates, n \in ItkDims}

CgalSpecialisations ==
  {[kind |-> "cgal", vt |-> CgalType("CGAL::Point_3", "Simple_cartesian<double>")],
   [kind |-> "cgal", vt |-> CgalType("CGAL::Direction_3", "Simple_cartesian<double>")],
   [kind |-> "cgal", vt |-> CgalType("CGAL::Point_3", "Epeck")],
   [kind |-> "cgal", vt |-> CgalType("CGAL::Point_3", "Epick")]}

Specialisations ==
  ItkSizeSpecialisations \cup ItkArraySpecialisations \cup CgalSpecialisations

\* mutant: the element type of the pattern is not compared
MatchesAnyElem(s, t) ==
  /\ s.vt.tmpl = t.vt.tmpl
  /\ s.vt.dim = t.vt.dim
  /\ s.vt.kernel = t.vt.kernel

\* mutant: the CGAL specialisations are written for VectorValueType double
MatchesCgalDouble(s, t) ==
  /\ s.vt.tmpl = t.vt.tmpl
  /\ s.vt.dim = t.vt.dim
  /\ s.vt.kernel = t.vt.kernel
  /\ IF s.vt.elem = BoundToVectorValueType
       THEN t.vt.elem = t.vvt
       ELSE s.vt.elem = t.vt.elem
  /\ s.kind = "cgal" => t.vvt = "double"

\* the pattern <VectorValueType, P, MatlabValueType> of a partial
\* specialisation matches the arguments t when P, with VectorValueType
\* replaced by t.vvt, is the type t.vt
Matches(s, t) ==
  /\ s.vt.tmpl = t.vt.tmpl
  /\ s.vt.dim = t.vt.dim
  /\ s.vt.kernel = t.vt.kernel
  /\ IF s.vt.elem = BoundToVectorValueType
       THEN t.vt.elem = t.vvt
       ELSE s.vt.elem = t.vt.elem

Candidates(t) == {s \in Specialisations : Matches(s, t)}

\* a matching partial specialisation is preferred to the primary template
Select(t) ==
  IF Candidates(t) = {} THEN Primary ELSE CHOOSE s \in Candidates(t) : TRUE

(* ------------------- the members of each definition -------------------- *)

RowVector3 == [name |-> "ReadRowVector", params |-> <<"const mxArray *", "mwIndex", "std::string">>]

RowVector2 == [name |-> "ReadRowVector", params |-> <<"const mxArray *", "std::string">>]

ArrayAsVector == [name |-> "ReadArrayAsVector", params |-> <<"const mxArray *", "std::string">>]

Size == [name |-> "ReadSize", params |-> <<"const mxArray *", "std::string">>]

HalfSize == [name |-> "ReadHalfSize", params |-> <<"const mxArray *", "std::string">>]

PrimaryMembers == {RowVector3, ArrayAsVector, Size, HalfSize}

MethodsVectorWrapperItk == {RowVector3, Size, HalfSize}

\* mutant: only the form without a row index is declared
VectorWrapperCgalNoRow == {RowVector2}

VectorWrapperCgal == {RowVector3, RowVector2}

\* the public read operations a definition of VectorWrapper declares
Members(def) ==
  CASE def.kind = "primary" -> PrimaryMembers
    [] def.kind = "itk" -> MethodsVectorWrapperItk
    [] def.kind = "cgal" -> VectorWrapperCgal
    [] OTHER -> {}

\* none of the definitions declares a data member
DataMembers(def) == <<>>

(* --------------------------- MATLAB arrays ----------------------------- *)

\* the buffer of a len-element array of class c: doubles take whole and
\* fractional values, integers whole values only
Fill(c, len, k) ==
  [i \in 1..len |-> IF c = "double" THEN (i * k) % 5 ELSE 2 * ((i * k) % 5)]

\* an m x n mxArray: its class, its dimensions and its column-major buffer
MxArray(c, m, n, k) == [class |-> c, m |-> m, n |-> n, data |-> Fill(c, m * n, k)]

Arrays ==
  {MxArray(c, m, n, k) : c \in ElemTypes, m \in 1..MaxRows, n \in 1..MaxCols, k \in 1..NumFills}

\* element (row, col) of the matrix, row and col counted from 0
MatrixElement(a, row, col) == a.data[col * a.m + row + 1]

(* ------------------------------ results -------------------------------- *)

NoType == [tmpl |-> "-", elem |-> NoElem, dim |-> 0, kernel |-> NoKernel]

NoResult == [status |-> "none", routine |-> "-", type |-> NoType, elems |-> <<>>, param |-> "-", reason |-> "-"]

\* the routine returned the vector elems of type vt
Returned(routine, vt, elems) ==
  [status |-> "ok", routine |-> routine, type |-> vt, elems |-> elems, param |-> "-", reason |-> "-"]

\* the routine raised an error that names the parameter; nothing is returned
Raised(routine, name, reason) ==
  [status |-> "error", routine |-> routine, type |-> NoType, elems |-> <<>>, param |-> name, reason |-> reason]

\* the routine returned a vector whose elements the model does not compute
ReturnedOpaque(routine, vt) ==
  [status |-> "unmodelled", routine |-> routine, type |-> vt, elems |-> <<>>, param |-> "-", reason |-> "-"]

(* ------------------------- conversion routines -------------------------- *)

\* the element type of a destination type
ElemTypeOf(vt) ==
  CASE vt.tmpl = "itk::Size" -> "int"
    [] vt.tmpl \in CgalTemplates -> "double"
    [] OTHER -> vt.elem

\* the number of elements of a fixed-length destination type
FixedLength(vt) == IF vt.tmpl \in CgalTemplates THEN 3 ELSE vt.dim

\* conversion of a scalar to an element type: to an integral type the
\* fraction is dropped, to a floating point type the value is kept
Cast(v, to) == IF to = "int" THEN (v \div 2) * 2 ELSE v

\* the scalars of one row of the matrix, each converted to the element type
CopyRow(a, row, to) == [col \in 1..a.n |-> Cast(a.data[(col - 1) * a.m + row + 1], to)]

\* the routine of the primary template: a vector with as many elements as
\* the matrix has columns
PrimaryRowVector(vt, mvt, a, row, name) ==
  IF a.class # mvt
    THEN Raised("VectorWrapper::ReadRowVector", name, "type")
    ELSE Returned("VectorWrapper::ReadRowVector", vt, CopyRow(a, row, ElemTypeOf(vt)))

ReadItkRowVector(vvt, vt, mvt, a, row, name) ==
  IF a.class # mvt
    THEN Raised("ReadItkRowVector", name, "type")
    ELSE IF a.n # FixedLength(vt)
      THEN Raised("ReadItkRowVector", name, "size")
      ELSE Returned("ReadItkRowVector", vt, CopyRow(a, row, ElemTypeOf(vt)))

ReadCgalRowVector(vt, mvt, a, row, name) ==
  IF a.class # mvt
    THEN Raised("ReadCgalRowVector", name, "type")
    ELSE IF a.n # FixedLength(vt)
      THEN Raised("ReadCgalRowVector", name, "size")
      ELSE Returned("ReadCgalRowVector", vt, CopyRow(a, row, ElemTypeOf(vt)))

ReadItkSize(vvt, vt, mvt, a, name) == ReturnedOpaque("ReadItkSize", vt)

ReadItkHalfSize(vvt, vt, mvt, a, name) == ReturnedOpaque("ReadItkHalfSize", vt)

(* ----------------------- the methods of the wrappers -------------------- *)

\* primary template
PrimaryReadRowVector(t, a, row, name) == PrimaryRowVector(t.vt, t.mvt, a, row, name)

PrimaryReadArrayAsVector(t, a, name) == ReturnedOpaque("VectorWrapper::ReadArrayAsVector", t.vt)

PrimaryReadSize(t, a, name) == ReturnedOpaque("VectorWrapper::ReadSize", t.vt)

PrimaryReadHalfSize(t, a, name) == ReturnedOpaque("VectorWrapper::ReadHalfSize", t.vt)

\* mutant: the row index is not forwarded
ItkReadRowVectorRow0(t, a, row, name) == ReadItkRowVector(t.vvt, t.vt, t.mvt, a, 0, name)

\* mutant: the call goes to the routine of the primary template
ItkReadRowVectorDefault(t, a, row, name) == PrimaryRowVector(t.vt, t.mvt, a, row, name)

\* ITK specialisations (the macro MethodsVectorWrapperItk)
ItkReadRowVector(t, a, row, name) == ReadItkRowVector(t.vvt, t.vt, t.mvt, a, row, name)

ItkReadSize(t, a, name) == ReadItkSize(t.vvt, t.vt, t.mvt, a, name)

ItkReadHalfSize(t, a, name) == ReadItkHalfSize(t.vvt, t.vt, t.mvt, a, name)

\* CGAL specialisations (the macro VectorWrapperCgal)
CgalReadRowVector(t, a, row, name) == ReadCgalRowVector(t.vt, t.mvt, a, row, name)

\* mutant: the form without a row index reads the last row
CgalReadLastRowVector(t, a, name) == ReadCgalRowVector(t.vt, t.mvt, a, a.m - 1, name)

CgalReadFirstRowVector(t, a, name) == ReadCgalRowVector(t.vt, t.mvt, a, 0, name)

\* the member a call resolves to in the selected definition
ReadRowVector(def, t, a, row, name) ==
  CASE def.kind = "itk" -> ItkReadRowVector(t, a, row, name)
    [] def.kind = "cgal" -> CgalReadRowVector(t, a, row, name)
    [] OTHER -> PrimaryReadRowVector(t, a, row, name)

ReadSize(def, t, a, name) ==
  IF def.kind = "itk" THEN ItkReadSize(t, a, name) ELSE PrimaryReadSize(t, a, name)

ReadHalfSize(def, t, a, name) ==
  IF def.kind = "itk" THEN ItkReadHalfSize(t, a, name) ELSE PrimaryReadHalfSize(t, a, name)

(* ------------------------------- state --------------------------------- *)

NoArgs == [vvt |-> "-", vt |-> NoType, mvt |-> "-"]

NoWrapper == [targs |-> NoArgs, def |-> [kind |-> "none", vt |-> NoType], data |-> <<>>]

NoMember == [name |-> "-", params |-> <<>>]

NoCall == [op |-> NoMember, row |-> 0, name |-> "-"]

Untracked == [state |-> "untracked", later |-> FALSE, call |-> NoCall, result |-> NoResult]

Pending == [state |-> "pending", later |-> FALSE, call |-> NoCall, result |-> NoResult]

\* the first read of a tracked run is remembered, and whether reads followed it
Track(f, c, r) ==
  CASE f.state = "pending" -> [state |-> "set", later |-> FALSE, call |-> c, result |-> r]
    [] f.state = "set" -> [f EXCEPT !.later = TRUE]
    [] OTHER -> f

\* the default definition is written for std::vector destinations
Usable(w) == w.def.kind \in {"itk", "cgal"} \/ (w.def.kind = "primary" /\ w.targs.vt.tmpl = "std::vector")

Init ==
  /\ pm \in Arrays
  /\ wrapper = NoWrapper
  /\ call = NoCall
  /\ result = NoResult
  /\ first = Untracked

InitFrame ==
  /\ pm \in Arrays
  /\ wrapper = NoWrapper
  /\ call = NoCall
  /\ result = NoResult
  /\ first = Pending

\* VectorWrapper<VectorValueType, VectorType, MatlabValueType> w;
\* the object a run reads through is constructed once
Construct(t) ==
  /\ wrapper = NoWrapper
  /\ wrapper' = [targs |-> t, def |-> Select(t), data |-> DataMembers(Select(t))]
  /\ call' = NoCall
  /\ result' = NoResult
  /\ UNCHANGED <<pm, first>>

\* mutant: the wrapper keeps the row index of the read in a data member
ReadKeepingRow(c, r) ==
  /\ call' = c
  /\ result' = r
  /\ first' = Track(first, c, r)
  /\ wrapper' = [wrapper EXCEPT !.data = <<c.row>>]
  /\ UNCHANGED pm

\* the effect of a read: the call and its result are recorded, the wrapper
\* and the array are left as they were
Read(c, r) ==
  /\ call' = c
  /\ result' = r
  /\ first' = Track(first, c, r)
  /\ UNCHANGED <<pm, wrapper>>

\* w.ReadRowVector(pm, row, paramName)
CallReadRowVector(row, name) ==
  /\ Usable(wrapper)
  /\ RowVector3 \in Members(wrapper.def)
  /\ row < pm.m
  /\ Read([op |-> RowVector3, row |-> row, name |-> name],
          ReadRowVector(wrapper.def, wrapper.targs, pm, row, name))

\* w.ReadRowVector(pm, paramName)
CallReadFirstRowVector(name) ==
  /\ Usable(wrapper)
  /\ RowVector2 \in Members(wrapper.def)
  /\ Read([op |-> RowVector2, row |-> 0, name |-> name],
          CgalReadFirstRowVector(wrapper.targs, pm, name))

\* w.ReadArrayAsVector(pm, paramName)
CallReadArrayAsVector(name) ==
  /\ Usable(wrapper)
  /\ ArrayAsVector \in Members(wrapper.def)
  /\ Read([op |-> ArrayAsVector, row |-> 0, name |-> name],
          PrimaryReadArrayAsVector(wrapper.targs, pm, name))

\* w.ReadSize(pm, paramName)
CallReadSize(name) ==
  /\ Usable(wrapper)
  /\ Size \in Members(wrapper.def)
  /\ Read([op |-> Size, row |-> 0, name |-> name],
          ReadSize(wrapper.def, wrapper.targs, pm, name))

\* w.ReadHalfSize(pm, paramName)
CallReadHalfSize(name) ==
  /\ Usable(wrapper)
  /\ HalfSize \in Members(wrapper.def)
  /\ Read([op |-> HalfSize, row |-> 0, name |-> name],
          ReadHalfSize(wrapper.def, wrapper.targs, pm, name))

Reads ==
  \/ \E row \in 0..(MaxRows - 1), name \in ParamNames : CallReadRowVector(row, name)
  \/ \E name \in ParamNames : CallReadFirstRowVector(name)
  \/ \E name \in ParamNames : CallReadArrayAsVector(name)
  \/ \E name \in ParamNames : CallReadSize(name)
  \/ \E name \in ParamNames : CallReadHalfSize(name)

Next ==
  \/ \E t \in Instantiations : Construct(t)
  \/ Reads

Spec == Init /\ [][Next]_vars

\* one instantiation of each family, for the runs that remember a first read
FrameInstantiations ==
  {[vvt |-> "double", vt |-> StdVector("double"), mvt |-> "double"],
   [vvt |-> "double", vt |-> ItkSize(2), mvt |-> "double"],
   [vvt |-> "double", vt |-> ItkArray("itk::Point", "double", 3), mvt |-> "double"],
   [vvt |-> "void", vt |-> CgalType("CGAL::Point_3", "Simple_cartesian<double>"), mvt |-> "double"]}

NextFrame ==
  \/ \E t \in FrameInstantiations : Construct(t)
  \/ Reads

SpecFrame == InitFrame /\ [][NextFrame]_vars

(* ------------------------------- claims -------------------------------- *)

Constructed == wrapper.def.kind # "none"

RowReads == {RowVector3, RowVector2}

\* C1 as stated: every definition offers ReadRowVector(pm, row, paramName),
\* ReadArrayAsVector, ReadSize and ReadHalfSize, and nothing else
C1_UniformInterface ==
  Constructed => Members(wrapper.def) = {RowVector3, ArrayAsVector, Size, HalfSize}

\* C1 amended: every definition offers ReadRowVector(pm, row, paramName);
\* ReadSize and ReadHalfSize are called on the primary and the ITK definitions
\* only, ReadArrayAsVector on the primary only, ReadRowVector(pm, paramName)
\* on the CGAL definitions only
C1_CommonRowRead ==
  Constructed =>
    /\ RowVector3 \in Members(wrapper.def)
    /\ call.op \in {Size, HalfSize} => wrapper.def.kind \in {"primary", "itk"}
    /\ call.op = ArrayAsVector => wrapper.def.kind = "primary"
    /\ call.op = RowVector2 => wrapper.def.kind = "cgal"
    /\ (Size \in Members(wrapper.def)) = (wrapper.def.kind # "cgal")
    /\ (ArrayAsVector \in Members(wrapper.def)) = (wrapper.def.kind = "primary")

C1_Witness ==
  /\ wrapper.def.kind = "cgal"
  /\ call.op = RowVector3
  /\ result.status = "ok"

\* the routine ReadRowVector of a definition forwards to
RoutineOf(kind) ==
  CASE kind = "itk" -> "ReadItkRowVector"
    [] kind = "cgal" -> "ReadCgalRowVector"
    [] OTHER -> "VectorWrapper::ReadRowVector"

IsItkType(vt) == vt.tmpl \in ({"itk::Size"} \cup ItkArrayTemplates) /\ vt.dim \in {2, 3, 4}

IsListedCgalType(vt) ==
  \/ vt.tmpl = "CGAL::Point_3" /\ vt.kernel \in {"Simple_cartesian<double>", "Epeck", "Epick"}
  \/ vt.tmpl = "CGAL::Direction_3" /\ vt.kernel = "Simple_cartesian<double>"

KindByType(vt) ==
  IF IsItkType(vt) THEN "itk" ELSE IF IsListedCgalType(vt) THEN "cgal" ELSE "primary"

\* for itk::FixedArray, itk::Point and itk::Vector the element type has to
\* be the argument VectorValueType
KindByArguments(t) ==
  IF IsItkType(t.vt) /\ (t.vt.tmpl = "itk::Size" \/ t.vt.elem = t.vvt)
    THEN "itk"
    ELSE IF IsListedCgalType(t.vt) THEN "cgal" ELSE "primary"

\* C2 as stated: one definition is selected, by the destination type alone:
\* the ITK routine for itk::Size, FixedArray, Point, Vector of dimension 2..4,
\* the CGAL routine for the four CGAL types, the default routine otherwise
C2_DispatchByType ==
  Constructed =>
    /\ Cardinality(Candidates(wrapper.targs)) <= 1
    /\ wrapper.def.kind = KindByType(wrapper.targs.vt)
    /\ call.op = RowVector3 => result.routine = RoutineOf(KindByType(wrapper.targs.vt))

\* C2 amended: as C2, but itk::FixedArray, itk::Point and itk::Vector select
\* the ITK routine only when their element type is VectorValueType, and the
\* default definition otherwise
C2_DispatchByArguments ==
  Constructed =>
    /\ Cardinality(Candidates(wrapper.targs)) <= 1
    /\ wrapper.def.kind = KindByArguments(wrapper.targs)
    /\ call.op = RowVector3 => result.routine = RoutineOf(KindByArguments(wrapper.targs))

C2_Witness ==
  /\ wrapper.targs.vt.tmpl = "itk::Point"
  /\ wrapper.targs.vt.elem = wrapper.targs.vvt
  /\ call.op = RowVector3
  /\ result.routine = "ReadItkRowVector"

\* a value the element type can hold
Representable(v, to) == to = "double" \/ v % 2 = 0

RowReturned == call.op \in RowReads /\ result.status = "ok"

C6_ValueTypeIgnored ==
  (wrapper.def.kind = "cgal" /\ call.op \in RowReads) =>
    \A v \in ValueTypeArgs :
      LET t2 == [wrapper.targs EXCEPT !.vvt = v]
      IN /\ Select(t2) = wrapper.def
         /\ ReadRowVector(Select(t2), t2, pm, call.row, call.name) = result

C6_Witness ==
  /\ wrapper.def.kind = "cgal"
  /\ wrapper.targs.vvt = "void"
  /\ call.op = RowVector3
  /\ call.row = 1
  /\ result.status = "ok"

IsRead == call.op # NoMember

SameAsFirst == (first.state = "set" /\ first.call = call) => result = first.result

\* C7: the wrapper holds no data, a read leaves the wrapper and the array
\* unchanged, and a read repeated after other reads returns what the first
\* such read returned
C7_Stateless ==
  /\ [](wrapper.data = <<>> /\ SameAsFirst)
  /\ [][IsRead' => (pm' = pm /\ wrapper' = wrapper)]_vars

C7_Witness ==
  /\ first.state = "set"
  /\ first.later
  /\ first.call = call
  /\ call.op = RowVector3
  /\ call.row = 1
  /\ result.status = "ok"

\* C8: in a CGAL definition ReadRowVector(pm, paramName) returns what
\* ReadRowVector(pm, 0, paramName) returns
C8_FirstRow ==
  call.op = RowVector2 =>
    /\ wrapper.def.kind = "cgal"
    /\ result = ReadRowVector(wrapper.def, wrapper.targs, pm, 0, call.name)

C8_Witness ==
  /\ call.op = RowVector2
  /\ result.status = "ok"
  /\ pm.m > 1
  /\ \E i \in 0..(pm.n - 1) : MatrixElement(pm, 1, i) # MatrixElement(pm, 0, i)

====
